---- MODULE Spec2Model ----
(***************************************************************************)
(* Model of the Zep embedding shell (src/zep_wrapper.cpp, src/wrapper.h).  *)
(* The shell owns one ZepEditor per handle plus a cached pointer to the    *)
(* current ZepBuffer.  The editor engine itself (ZepEditor, ZepBuffer,     *)
(* ZepWindow, ZepMode) is not part of the two source files; the engine     *)
(* operators below follow spec.md sections 3, 4.2 and 4.3.                 *)
(***************************************************************************)
EXTENDS Integers, Sequences, FiniteSets, TLC

VARIABLES
    alive,            \* handle -> "free" | "live" | "destroyed"
    current_buffer,   \* handle -> ZepEditorWrapper::current_buffer (0 = nullptr)
    buffers,          \* handle -> sequence of Buffer contents owned by the Editor
    activeWindow,     \* handle -> NoWindow or [buffer, cursor]
    globalMode,       \* handle -> name of the active global Mode, or NoMode
    registeredModes,  \* handle -> set of registered Mode names
    modeState,        \* handle -> sub-state of the Vim Mode
    displayRegion,    \* handle -> NoRegion or <<x, y, x + width, y + height>>
    call,             \* the boundary call made last, with its arguments
    ret,              \* its return value (NoRet for void operations)
    outBuffer,        \* the caller's outBuffer memory after the call
    outPos,           \* the caller's line / column out-parameters after the call
    delivered         \* what the call handed to Mode::AddKeyPress (key, modifiers,
                      \* the Buffer whose Mode got it, the Buffer the active
                      \* Window showed then), or NoKey

vars == <<alive, current_buffer, buffers, activeWindow, globalMode,
          registeredModes, modeState, displayRegion,
          call, ret, outBuffer, outPos, delivered>>

editorVars == <<alive, current_buffer, buffers, activeWindow, globalMode,
                registeredModes, modeState, displayRegion>>

----------------------------------------------------------------------------
(* Bounds of the model. *)

MaxLen == 1          \* longest text handed to initWithText / grown by edits
MaxCap == 3
MaxResolveLen == 3          \* largest capacity handed to getText

----------------------------------------------------------------------------
(* Values. *)

NULL == 0                      \* the absent handle / nullptr
Handles == {1, 2}              \* handles create can hand out
MainHandles == {1}
BufferIds == {1, 2}            \* Buffers one Editor creates, in this order

NUL == 0                       \* '\0'
NL == 10                       \* '\n'
Garbage == 204                 \* content of caller memory the shell never wrote
ContentBytes == {97, NL}       \* 'a' and '\n'

NoWindow == [buffer |-> 0, cursor |-> 0]
NoMode == "none"
NoRegion == <<>>
NoRet == "void"
ExtKey(name) == [kind |-> "ExtKeys", name |-> name, code |-> 0]    \* ExtKeys::name
Literal(code) == [kind |-> "literal", name |-> "", code |-> code]  \* a character code
NoKey == [key |-> [kind |-> "none", name |-> "", code |-> 0],
          modifiers |-> {}, buffer |-> 0, target |-> 0]
NoPos == [line |-> -1, column |-> -1]

Min(a, b) == IF a < b THEN a ELSE b

RECURSIVE SeqsUpTo(_)
SeqsUpTo(n) ==
    IF n = 0 THEN {<<>>}
    ELSE LET S == SeqsUpTo(n - 1)
         IN  S \cup {Append(s, b) : s \in {t \in S : Len(t) = n - 1}, b \in ContentBytes}

Texts == SeqsUpTo(MaxLen)

(* Caller memory of MemSize bytes, indexed from 0 as in C. *)
MemSize == MaxCap + 1
FreshMemory == [i \in 0..(MemSize - 1) |-> Garbage]

----------------------------------------------------------------------------
(* The engine: Editor, Buffer, Window and Mode (spec.md sections 3 and 4). *)

(* ZepEditor::RegisterGlobalMode *)
RegisterGlobalMode(reg, name) == reg \cup {name}

(* ZepEditor::SetGlobalMode: selects a registered Mode by name. *)
SetGlobalMode(reg, mode, name) == IF name \in reg THEN name ELSE mode

(* ZepEditor::GetGlobalMode *)
GetGlobalMode(h) == globalMode[h]

(* ZepBuffer::GetText *)
GetText(h, b) == buffers[h][b]

(* ZepBuffer::GetMode: the Mode that handles keys for the Buffer. *)
GetMode(h, b) == GetGlobalMode(h)

(* ZepEditor::GetActiveWindow, ZepWindow::GetBuffer, ZepWindow::GetBufferCursor *)
GetActiveWindow(h) == activeWindow[h]
GetBuffer(w) == w.buffer
GetBufferCursor(w) == w.cursor

(* Line-start table of a content: offset 0 and the offset after every '\n'. *)
LineStarts(text) == {0} \cup {i \in 1..Len(text) : text[i] = NL}

(* ZepBuffer::GetLinePos(o, LineBegin): start of the line that holds o. *)
GetLinePos(text, o) ==
    CHOOSE s \in LineStarts(text) :
        /\ s <= o
        /\ \A t \in LineStarts(text) : t <= o => t <= s

(* ZepBuffer::GetLineFromOffset(o): index of the line that holds o. *)
GetLineFromOffset(text, o) ==
    Cardinality({s \in LineStarts(text) : s <= o}) - 1

(* End of the line that starts at s: offset of its '\n', or the length. *)
LineEnd(text, s) ==
    IF \E i \in (s + 1)..Len(text) : text[i] = NL
    THEN (CHOOSE i \in (s + 1)..Len(text) :
              /\ text[i] = NL
              /\ \A j \in (s + 1)..(i - 1) : text[j] # NL) - 1
    ELSE Len(text)

(* ZepEditor::InitWithText: a new Buffer holding text, shown by the active *)
(* Window with the cursor at offset 0; returns the new Buffer.             *)
InitWithText_buffers(bs, text) == Append(bs, text)
InitWithText_window(bs) == [buffer |-> Len(bs) + 1, cursor |-> 0]
InitWithText_result(bs) == Len(bs) + 1

(* Cursor motions of the Mode for the four arrow keys. *)
Motion(text, o, key) ==
    LET s == GetLinePos(text, o)
        e == LineEnd(text, s)
    IN  CASE key = ExtKey("LEFT")  -> IF o > s THEN o - 1 ELSE o
          [] key = ExtKey("RIGHT") -> IF o < e THEN o + 1 ELSE o
          [] key = ExtKey("DOWN")  -> IF e < Len(text)
                                      THEN Min(e + 1 + (o - s), LineEnd(text, e + 1))
                                      ELSE o
          [] key = ExtKey("UP")    -> IF s > 0
                                      THEN Min(GetLinePos(text, s - 1) + (o - s), s - 1)
                                      ELSE o
          [] OTHER                 -> o

InsertAt(text, o, b) == SubSeq(text, 1, o) \o <<b>> \o SubSeq(text, o + 1, Len(text))
DeleteAt(text, o) == SubSeq(text, 1, o) \o SubSeq(text, o + 2, Len(text))

ArrowKeys == {ExtKey("UP"), ExtKey("DOWN"), ExtKey("LEFT"), ExtKey("RIGHT")}

(* ZepMode::AddKeyPress: one key event consumed against the active Window  *)
(* and the Buffer it shows.  The result is the set of engine states the key *)
(* may lead to, as [buffers, window, modeState].  An arrow key is a motion; *)
(* what any other key means is decided by the Mode's command grammar, which *)
(* is outside the shell: the key may be ignored, change the Mode's          *)
(* sub-state, insert itself, delete the byte under the cursor, close the    *)
(* active Window or show another Buffer in it (the two cases the shell      *)
(* guards against in zep_get_cursor_position).  Without an active Window    *)
(* the key has nothing to act on.                                           *)
AddKeyPress(bs, w, ms, key) ==
    LET same == [buffers |-> bs, window |-> w, modeState |-> ms]
    IN  IF w = NoWindow THEN {same}
        ELSE LET b == w.buffer
                 t == bs[b]
                 o == w.cursor
             IN  IF key \in ArrowKeys
                 THEN {[same EXCEPT !.window.cursor = Motion(t, o, key)]}
                 ELSE {same}
                      \cup {[same EXCEPT !.modeState =
                                 IF ms = "Normal" THEN "Insert" ELSE "Normal"]}
                      \cup {[same EXCEPT !.buffers[b] = InsertAt(t, o, key.code),
                                         !.window.cursor = o + 1] :
                               x \in {y \in {key} : /\ ms = "Insert"
                                                    /\ y.code \in ContentBytes
                                                    /\ Len(t) < MaxLen}}
                      \cup {[same EXCEPT !.buffers[b] = DeleteAt(t, o),
                                         !.window.cursor = Min(o, Len(t) - 1)] :
                               x \in {y \in {key} : o < Len(t)}}
                      \cup {[same EXCEPT !.window = NoWindow]}
                      \cup {[same EXCEPT !.window = [buffer |-> c, cursor |-> 0]] :
                               c \in (1..Len(bs)) \ {b}}

----------------------------------------------------------------------------
(* The shell (src/zep_wrapper.cpp). *)

Bit(m, i) == (m \div (2 ^ i)) % 2 = 1

(* The modifier conversion testing value 8 for Shift. *)
TranslateModifiers_shiftBit3(modifiers) ==
    (IF Bit(modifiers, 0) THEN {"Ctrl"} ELSE {})
    \cup (IF Bit(modifiers, 1) THEN {"Alt"} ELSE {})
    \cup (IF Bit(modifiers, 3) THEN {"Shift"} ELSE {})

(* zep_handle_key, "Convert modifiers to Zep format" *)
TranslateModifiers(modifiers) ==
    (IF Bit(modifiers, 0) THEN {"Ctrl"} ELSE {})
    \cup (IF Bit(modifiers, 1) THEN {"Alt"} ELSE {})
    \cup (IF Bit(modifiers, 2) THEN {"Shift"} ELSE {})

(* The key conversion with the codes of Up and Down exchanged. *)
TranslateKey_upDownSwapped(key) ==
    IF key = 1000 THEN ExtKey("DOWN")
    ELSE IF key = 1001 THEN ExtKey("UP")
    ELSE IF key = 1002 THEN ExtKey("LEFT")
    ELSE IF key = 1003 THEN ExtKey("RIGHT")
    ELSE Literal(key)

(* zep_handle_key, "Map special keys" *)
TranslateKey(key) ==
    IF key = 1000 THEN ExtKey("UP")
    ELSE IF key = 1001 THEN ExtKey("DOWN")
    ELSE IF key = 1002 THEN ExtKey("LEFT")
    ELSE IF key = 1003 THEN ExtKey("RIGHT")
    ELSE Literal(key)

(* CopyOut with the terminator's byte not reserved: min(size, capacity). *)
CopyOut_offByOne(text, mem, buffer_size) ==
    LET text_size == Len(text)
        copy_size == Min(text_size, buffer_size)
    IN  [ret |-> copy_size,
         mem |-> [i \in DOMAIN mem |->
                     IF i < copy_size THEN text[i + 1]
                     ELSE IF i = copy_size THEN NUL
                     ELSE mem[i]]]

(* zep_get_text, the copy: what is returned and what the memory holds.    *)
(* mem is the caller's memory from the outBuffer pointer on, on entry.     *)
CopyOut(text, mem, buffer_size) ==
    LET text_size == Len(text)
        copy_size == Min(text_size, buffer_size - 1)
    IN  [ret |-> copy_size,
         mem |-> [i \in DOMAIN mem |->
                     IF i < copy_size THEN text[i + 1]
                     ELSE IF i = copy_size THEN NUL
                     ELSE mem[i]]]

(* zep_get_text as a function of the state and its arguments. *)
GetTextResult(h, present, mem, buffer_size, fault) ==
    IF h = NULL \/ ~present \/ buffer_size = 0 THEN [ret |-> 0, mem |-> mem]
    ELSE IF current_buffer[h] = NULL THEN [ret |-> 0, mem |-> mem]
    ELSE IF fault # 0 THEN [ret |-> 0, mem |-> mem]
    ELSE CopyOut(GetText(h, current_buffer[h]), mem, buffer_size)

(* zep_get_text_length counting the terminator as well. *)
GetTextLengthResult_withTerminator(h, fault) ==
    IF h = NULL THEN 0
    ELSE IF current_buffer[h] = NULL THEN 0
    ELSE IF fault # 0 THEN 0
    ELSE Len(GetText(h, current_buffer[h])) + 1

(* zep_get_text_length as a function of the state. *)
GetTextLengthResult(h, fault) ==
    IF h = NULL THEN 0
    ELSE IF current_buffer[h] = NULL THEN 0
    ELSE IF fault # 0 THEN 0
    ELSE Len(GetText(h, current_buffer[h]))

(* zep_is_vim_mode as a function of the state. *)
IsVimModeResult(h, fault) ==
    IF h = NULL THEN FALSE
    ELSE IF fault # 0 THEN FALSE
    ELSE GetGlobalMode(h) # NoMode /\ GetGlobalMode(h) = "Vim"

(* zep_get_cursor_position without the check that the active Window shows *)
(* the current Buffer.                                                     *)
GetCursorPositionResult_anyWindow(h, present, pos, fault) ==
    IF h = NULL \/ ~present THEN pos
    ELSE IF current_buffer[h] = NULL THEN [line |-> 0, column |-> 0]
    ELSE IF fault = 1 THEN [line |-> 0, column |-> 0]
    ELSE LET window == GetActiveWindow(h)
         IN  IF window # NoWindow
             THEN LET cursor == GetBufferCursor(window)
                      text == GetText(h, current_buffer[h])
                  IN  [line |-> GetLineFromOffset(text, cursor),
                       column |-> IF fault = 2 THEN 0
                                  ELSE cursor - GetLinePos(text, cursor)]
             ELSE [line |-> 0, column |-> 0]

(* zep_get_cursor_position reporting the offset itself as the column. *)
GetCursorPositionResult_rawColumn(h, present, pos, fault) ==
    IF h = NULL \/ ~present THEN pos
    ELSE IF current_buffer[h] = NULL THEN [line |-> 0, column |-> 0]
    ELSE IF fault = 1 THEN [line |-> 0, column |-> 0]
    ELSE LET window == GetActiveWindow(h)
         IN  IF window # NoWindow /\ GetBuffer(window) = current_buffer[h]
             THEN LET cursor == GetBufferCursor(window)
                      text == GetText(h, current_buffer[h])
                  IN  [line |-> GetLineFromOffset(text, cursor),
                       column |-> IF fault = 2 THEN 0 ELSE cursor]
             ELSE [line |-> 0, column |-> 0]

(* zep_get_cursor_position counting lines and columns from 1. *)
GetCursorPositionResult_oneBased(h, present, pos, fault) ==
    IF h = NULL \/ ~present THEN pos
    ELSE IF current_buffer[h] = NULL THEN [line |-> 0, column |-> 0]
    ELSE IF fault = 1 THEN [line |-> 0, column |-> 0]
    ELSE LET window == GetActiveWindow(h)
         IN  IF window # NoWindow /\ GetBuffer(window) = current_buffer[h]
             THEN LET cursor == GetBufferCursor(window)
                      text == GetText(h, current_buffer[h])
                  IN  [line |-> GetLineFromOffset(text, cursor) + 1,
                       column |-> IF fault = 2 THEN 0
                                  ELSE cursor - GetLinePos(text, cursor) + 1]
             ELSE [line |-> 0, column |-> 0]

(* zep_get_cursor_position: the out-parameters on return; pos holds them   *)
(* on entry and present tells whether both pointers were handed in.  The   *)
(* line is stored before the column is computed: a fault in GetLinePos     *)
(* (fault 2) leaves the line stored and the column at its default, a fault *)
(* in an earlier engine call (fault 1) leaves both defaults.               *)
GetCursorPositionResult(h, present, pos, fault) ==
    IF h = NULL \/ ~present THEN pos
    ELSE IF current_buffer[h] = NULL THEN [line |-> 0, column |-> 0]
    ELSE IF fault = 1 THEN [line |-> 0, column |-> 0]
    ELSE LET window == GetActiveWindow(h)
         IN  IF window # NoWindow /\ GetBuffer(window) = current_buffer[h]
             THEN LET cursor == GetBufferCursor(window)
                      text == GetText(h, current_buffer[h])
                  IN  [line |-> GetLineFromOffset(text, cursor),
                       column |-> IF fault = 2 THEN 0
                                  ELSE cursor - GetLinePos(text, cursor)]
             ELSE [line |-> 0, column |-> 0]

(* The constructor registering the Standard Mode alone. *)
ZepEditorWrapper_modes_standardOnly == RegisterGlobalMode({}, "Standard")

(* The constructor of ZepEditorWrapper: both Modes registered, Vim active. *)
ZepEditorWrapper_modes ==
    RegisterGlobalMode(RegisterGlobalMode({}, "Vim"), "Standard")
(* The constructor activating the Mode registered last. *)
ZepEditorWrapper_globalMode_standard ==
    SetGlobalMode(ZepEditorWrapper_modes, NoMode, "Standard")

ZepEditorWrapper_globalMode ==
    SetGlobalMode(ZepEditorWrapper_modes, NoMode, "Vim")

NoOutput ==
    /\ outBuffer' = FreshMemory
    /\ outPos' = NoPos
    /\ delivered' = NoKey

Callable(h) == IF h = NULL THEN TRUE ELSE alive[h] = "live"

zep_create_editor(h, rootPresent, fault) ==
    /\ h # NULL /\ alive[h] = "free"
    /\ call' = [op |-> "create", h |-> h, rootPresent |-> rootPresent, fault |-> fault]
    /\ NoOutput
    /\ IF fault # 0
       THEN /\ ret' = NULL
            /\ UNCHANGED editorVars
       ELSE /\ ret' = h
            /\ alive' = [alive EXCEPT ![h] = "live"]
            /\ current_buffer' = [current_buffer EXCEPT ![h] = NULL]
            /\ registeredModes' = [registeredModes EXCEPT ![h] = ZepEditorWrapper_modes]
            /\ globalMode' = [globalMode EXCEPT ![h] = ZepEditorWrapper_globalMode]
            /\ UNCHANGED <<buffers, activeWindow, modeState, displayRegion>>

zep_destroy_editor(h) ==
    /\ Callable(h)
    /\ call' = [op |-> "destroy", h |-> h]
    /\ ret' = NoRet
    /\ NoOutput
    /\ IF h # NULL
       THEN /\ alive' = [alive EXCEPT ![h] = "destroyed"]
            /\ current_buffer' = [current_buffer EXCEPT ![h] = NULL]
            /\ buffers' = [buffers EXCEPT ![h] = <<>>]
            /\ activeWindow' = [activeWindow EXCEPT ![h] = NoWindow]
            /\ globalMode' = [globalMode EXCEPT ![h] = NoMode]
            /\ registeredModes' = [registeredModes EXCEPT ![h] = {}]
            /\ modeState' = [modeState EXCEPT ![h] = "Normal"]
            /\ displayRegion' = [displayRegion EXCEPT ![h] = NoRegion]
       ELSE UNCHANGED editorVars

(* The guard of zep_init_with_text without the check of name. *)
InitRejected_noNameCheck(h, namePresent, textPresent) ==
    h = NULL \/ ~textPresent

(* The guard of zep_init_with_text. *)
InitRejected(h, namePresent, textPresent) ==
    h = NULL \/ ~namePresent \/ ~textPresent

(* The cached pointer kept once for all wrappers instead of per wrapper. *)
CacheCurrentBuffer_shared(cache, h, result) == [g \in DOMAIN cache |-> result]

(* The cached pointer set only while the wrapper has none. *)
CacheCurrentBuffer_onlyFirst(cache, h, result) ==
    IF cache[h] = NULL THEN [cache EXCEPT ![h] = result] ELSE cache

(* zep_init_with_text, wrapper->current_buffer = <result of InitWithText> *)
CacheCurrentBuffer(cache, h, result) == [cache EXCEPT ![h] = result]

zep_init_with_text(h, namePresent, textPresent, text, fault) ==
    /\ Callable(h)
    /\ IF h = NULL THEN TRUE ELSE Len(buffers[h]) + 1 \in BufferIds
    /\ call' = [op |-> "initWithText", h |-> h, namePresent |-> namePresent,
                textPresent |-> textPresent, text |-> text, fault |-> fault]
    /\ ret' = NoRet
    /\ NoOutput
    /\ IF InitRejected(h, namePresent, textPresent) \/ fault # 0
       THEN UNCHANGED editorVars
       ELSE /\ buffers' = [buffers EXCEPT ![h] = InitWithText_buffers(@, text)]
            /\ activeWindow' = [activeWindow EXCEPT ![h] = InitWithText_window(buffers[h])]
            /\ current_buffer' = CacheCurrentBuffer(current_buffer, h,
                                                    InitWithText_result(buffers[h]))
            /\ UNCHANGED <<alive, globalMode, registeredModes, modeState, displayRegion>>

zep_get_text(h, present, buffer_size, fault) ==
    /\ Callable(h)
    /\ call' = [op |-> "getText", h |-> h, present |-> present,
                capacity |-> buffer_size, fault |-> fault]
    /\ LET r == GetTextResult(h, present, FreshMemory, buffer_size, fault)
       IN  /\ ret' = r.ret
           /\ outBuffer' = r.mem
    /\ outPos' = NoPos
    /\ delivered' = NoKey
    /\ UNCHANGED editorVars

(* zep_set_vim_mode selecting the Mode registered next to Vim. *)
zep_set_vim_mode_standard(h, fault) ==
    /\ Callable(h)
    /\ call' = [op |-> "setVimMode", h |-> h, fault |-> fault]
    /\ ret' = NoRet
    /\ NoOutput
    /\ IF h = NULL \/ fault # 0
       THEN UNCHANGED editorVars
       ELSE /\ globalMode' = [globalMode EXCEPT ![h] =
                                  SetGlobalMode(registeredModes[h], @, "Standard")]
            /\ UNCHANGED <<alive, current_buffer, buffers, activeWindow,
                           registeredModes, modeState, displayRegion>>

zep_set_vim_mode(h, fault) ==
    /\ Callable(h)
    /\ call' = [op |-> "setVimMode", h |-> h, fault |-> fault]
    /\ ret' = NoRet
    /\ NoOutput
    /\ IF h = NULL \/ fault # 0
       THEN UNCHANGED editorVars
       ELSE /\ globalMode' = [globalMode EXCEPT ![h] =
                                  SetGlobalMode(registeredModes[h], @, "Vim")]
            /\ UNCHANGED <<alive, current_buffer, buffers, activeWindow,
                           registeredModes, modeState, displayRegion>>

(* zep_handle_key refusing keys while no Window is active. *)
KeyDeliverable_needsWindow(h, fault) ==
    /\ h # NULL
    /\ current_buffer[h] # NULL
    /\ fault = 0
    /\ GetActiveWindow(h) # NoWindow
    /\ GetMode(h, current_buffer[h]) # NoMode

(* zep_handle_key without the check of current_buffer. *)
KeyDeliverable_noBufferCheck(h, fault) ==
    /\ h # NULL
    /\ fault = 0
    /\ GetMode(h, current_buffer[h]) # NoMode

(* zep_handle_key: whether the key event reaches a Mode. *)
KeyDeliverable(h, fault) ==
    /\ h # NULL
    /\ current_buffer[h] # NULL
    /\ fault = 0
    /\ GetMode(h, current_buffer[h]) # NoMode

zep_handle_key(h, key, modifiers, fault) ==
    /\ Callable(h)
    /\ call' = [op |-> "handleKey", h |-> h, key |-> key, modifiers |-> modifiers, fault |-> fault]
    /\ outBuffer' = FreshMemory
    /\ outPos' = NoPos
    /\ IF KeyDeliverable(h, fault)
       THEN LET zep_modifiers == TranslateModifiers(modifiers)
                zep_key == TranslateKey(key)
            IN  /\ \E e \in AddKeyPress(buffers[h], activeWindow[h], modeState[h], zep_key) :
                       /\ buffers' = [buffers EXCEPT ![h] = e.buffers]
                       /\ activeWindow' = [activeWindow EXCEPT ![h] = e.window]
                       /\ modeState' = [modeState EXCEPT ![h] = e.modeState]
                /\ delivered' = [key |-> zep_key, modifiers |-> zep_modifiers,
                                 buffer |-> current_buffer[h],
                                 target |-> GetBuffer(GetActiveWindow(h))]
                /\ ret' = TRUE
                /\ UNCHANGED <<alive, current_buffer, globalMode, registeredModes,
                               displayRegion>>
       ELSE /\ delivered' = NoKey
            /\ ret' = FALSE
            /\ UNCHANGED editorVars

(* The region with the extent taken for the far corner. *)
DisplayRegion_extentAsCorner(x, y, width, height) == <<x, y, width, height>>

(* zep_display, the two corners handed to SetDisplayRegion. *)
DisplayRegion(x, y, width, height) == <<x, y, x + width, y + height>>

(* A fault in SetDisplayRegion (fault 1) leaves the region as it was; a    *)
(* fault in Display (fault 2) comes after the region was set.              *)
zep_display(h, x, y, width, height, fault) ==
    /\ Callable(h)
    /\ call' = [op |-> "display", h |-> h, x |-> x, y |-> y,
                width |-> width, height |-> height, fault |-> fault]
    /\ ret' = NoRet
    /\ NoOutput
    /\ IF h = NULL \/ fault = 1
       THEN UNCHANGED editorVars
       ELSE /\ displayRegion' = [displayRegion EXCEPT ![h] =
                                     DisplayRegion(x, y, width, height)]
            /\ UNCHANGED <<alive, current_buffer, buffers, activeWindow,
                           globalMode, registeredModes, modeState>>

zep_get_text_length(h, fault) ==
    /\ Callable(h)
    /\ call' = [op |-> "getTextLength", h |-> h, fault |-> fault]
    /\ ret' = GetTextLengthResult(h, fault)
    /\ NoOutput
    /\ UNCHANGED editorVars

zep_is_vim_mode(h, fault) ==
    /\ Callable(h)
    /\ call' = [op |-> "isVimMode", h |-> h, fault |-> fault]
    /\ ret' = IsVimModeResult(h, fault)
    /\ NoOutput
    /\ UNCHANGED editorVars

zep_get_cursor_position(h, present, pos, fault) ==
    /\ Callable(h)
    /\ call' = [op |-> "getCursorPosition", h |-> h, present |-> present,
                before |-> pos, fault |-> fault]
    /\ ret' = NoRet
    /\ outPos' = GetCursorPositionResult(h, present, pos, fault)
    /\ outBuffer' = FreshMemory
    /\ delivered' = NoKey
    /\ UNCHANGED editorVars

----------------------------------------------------------------------------
(* The host: any sequence of boundary calls, one at a time (spec.md 5).    *)

Capacities == 0..MaxCap
KeyEvents == {<<1000, 0>>, <<1001, 2>>, <<1002, 12>>, <<1003, 15>>,
              <<5, 5>>, <<97, 1>>, <<97, 8>>}
PosInputs == {[line |-> -1, column |-> -1], [line |-> 7, column |-> 3]}
Coords == {1}
Extents == {2}

Init ==
    /\ alive = [h \in Handles |-> "free"]
    /\ current_buffer = [h \in Handles |-> NULL]
    /\ buffers = [h \in Handles |-> <<>>]
    /\ activeWindow = [h \in Handles |-> NoWindow]
    /\ globalMode = [h \in Handles |-> NoMode]
    /\ registeredModes = [h \in Handles |-> {}]
    /\ modeState = [h \in Handles |-> "Normal"]
    /\ displayRegion = [h \in Handles |-> NoRegion]
    /\ call = [op |-> "none", h |-> NULL]
    /\ ret = NoRet
    /\ outBuffer = FreshMemory
    /\ outPos = NoPos
    /\ delivered = NoKey

(* The calls a host makes on the handles HS when the engine raises the     *)
(* faults FS.  A call that is rejected for an absent handle or pointer     *)
(* never reads its other arguments, so those are not varied for it.        *)
Step(HS, FS) ==
    \/ \E h \in HS, rootPresent \in BOOLEAN, fault \in FS :
           zep_create_editor(h, rootPresent, fault)
    \/ \E h \in HS \cup {NULL} : zep_destroy_editor(h)
    \/ \E h \in HS, text \in Texts, fault \in FS :
           zep_init_with_text(h, TRUE, TRUE, text, fault)
    \/ \E h \in HS \cup {NULL}, namePresent \in BOOLEAN, textPresent \in BOOLEAN, fault \in FS :
           /\ h = NULL \/ ~namePresent \/ ~textPresent
           /\ zep_init_with_text(h, namePresent, textPresent, <<>>, fault)
    \/ \E h \in HS \cup {NULL}, cap \in Capacities, fault \in FS :
           zep_get_text(h, TRUE, cap, fault)
    \/ \E h \in HS \cup {NULL}, fault \in FS :
           zep_get_text(h, FALSE, MaxCap, fault)
    \/ \E h \in HS \cup {NULL}, fault \in FS : zep_set_vim_mode(h, fault)
    \/ \E h \in HS, e \in KeyEvents, fault \in FS :
           zep_handle_key(h, e[1], e[2], fault)
    \/ \E e \in {<<1000, 0>>, <<5, 5>>}, fault \in FS :
           zep_handle_key(NULL, e[1], e[2], fault)
    \/ \E h \in HS \cup {NULL}, x \in Coords, y \in Coords, w \in Extents, ht \in Extents, fault \in FS :
           zep_display(h, x, y, w, ht, fault)
    \/ \E h \in HS \cup {NULL}, fault \in FS : zep_get_text_length(h, fault)
    \/ \E h \in HS \cup {NULL}, fault \in FS : zep_is_vim_mode(h, fault)
    \/ \E h \in HS \cup {NULL}, present \in BOOLEAN, pos \in PosInputs, fault \in FS :
           zep_get_cursor_position(h, present, pos, fault)

(* The engine raising no fault.  A fault argument names the engine call    *)
(* of the try block that throws: 0 none, 1 the first, 2 the last.          *)
Next == Step(MainHandles, {0})

Spec == Init /\ [][Next]_vars

(* The engine raising a fault in any call: none, the first engine call of  *)
(* the try block, or the last one.                                         *)
FaultPoints == {0, 1, 2}

NextFault == Step(MainHandles, FaultPoints)

SpecFault == Init /\ [][NextFault]_vars

(* Two handles under the operations that change an Editor: create,        *)
(* destroy, initWithText, setVimMode, handleKey and display.               *)
EditorOps(h, TS, KS) ==
    \/ zep_create_editor(h, TRUE, 0)
    \/ zep_destroy_editor(h)
    \/ \E text \in TS : zep_init_with_text(h, TRUE, TRUE, text, 0)
    \/ zep_set_vim_mode(h, 0)
    \/ \E e \in KS : zep_handle_key(h, e[1], e[2], 0)
    \/ \E x \in Coords, y \in Coords, w \in Extents, ht \in Extents :
           zep_display(h, x, y, w, ht, 0)

(* The second handle is the bystander: one text and one key are enough to *)
(* give it a Buffer, a replaced Buffer and a moved cursor.                 *)
BystanderTexts == {<<97>>}
BystanderKeys == {<<1003, 15>>}

NextIso ==
    \/ EditorOps(1, Texts, KeyEvents)
    \/ EditorOps(2, BystanderTexts, BystanderKeys)

SpecIso == Init /\ [][NextIso]_vars

(* The scenario of spec.md 8: one handle, the text "hello\nworld", the    *)
(* four arrow keys and the two queries the scenario asks.                  *)
ScenarioText ==
    <<104, 101, 108, 108, 111, NL, 119, 111, 114, 108, 100>>
ScenarioKeys == {<<1000, 0>>, <<1001, 0>>, <<1002, 0>>, <<1003, 0>>}

NextScenario ==
    \/ zep_create_editor(1, TRUE, 0)
    \/ zep_init_with_text(1, TRUE, TRUE, ScenarioText, 0)
    \/ \E e \in ScenarioKeys : zep_handle_key(1, e[1], e[2], 0)
    \/ zep_get_text_length(1, 0)
    \/ \E pos \in PosInputs : zep_get_cursor_position(1, TRUE, pos, 0)

SpecScenario == Init /\ [][NextScenario]_vars

(* Offset resolution: one handle, every text of up to MaxResolveLen bytes, *)
(* the arrow keys to take the cursor to every offset, and the query.       *)
ResolveTexts == SeqsUpTo(MaxResolveLen)

NextResolve ==
    \/ zep_create_editor(1, TRUE, 0)
    \/ \E text \in ResolveTexts : zep_init_with_text(1, TRUE, TRUE, text, 0)
    \/ \E e \in ScenarioKeys : zep_handle_key(1, e[1], e[2], 0)
    \/ \E pos \in PosInputs : zep_get_cursor_position(1, TRUE, pos, 0)

SpecResolve == Init /\ [][NextResolve]_vars

----------------------------------------------------------------------------
(* Properties of the boundary. *)

Zero == [line |-> 0, column |-> 0]
Hello == <<104, 101, 108, 108, 111>>      \* "hello"

(* The content of the current Buffer of a handle that has one. *)
Content(h) == buffers[h][current_buffer[h]]

HasBuffer(h) == IF h = NULL THEN FALSE ELSE current_buffer[h] # NULL

(* C1: a getText call with outBuffer present, in every state of the handle *)
(* (absent, without a current Buffer, with one), writes no byte at an      *)
(* index >= capacity, and with capacity > 0 the outBuffer holds a          *)
(* terminator within its first capacity bytes on return.                   *)
C1_GetTextBoundedAndTerminated ==
    (call.op = "getText" /\ call.present) =>
        /\ \A i \in DOMAIN outBuffer :
               i >= call.capacity => outBuffer[i] = FreshMemory[i]
        /\ call.capacity > 0 =>
               \E i \in 0..(call.capacity - 1) : outBuffer[i] = NUL

(* C2: with a current Buffer of content t and capacity c > 0, getText      *)
(* returns min(len(t), c - 1), the first that-many bytes of outBuffer are  *)
(* the prefix of t and the byte at the index returned is the terminator;   *)
(* for c > len(t) the copy is t itself, and "hello" with c = 3 gives 2     *)
(* with "he" copied.                                                       *)
C2_GetTextCopiesPrefix ==
    /\ (call.op = "getText" /\ call.present /\ call.capacity > 0 /\ HasBuffer(call.h)) =>
           LET t == Content(call.h)
           IN  /\ ret = Min(Len(t), call.capacity - 1)
               /\ \A i \in 0..(ret - 1) : outBuffer[i] = t[i + 1]
               /\ outBuffer[ret] = NUL
               /\ call.capacity > Len(t) =>
                      /\ ret = Len(t)
                      /\ [i \in 1..ret |-> outBuffer[i - 1]] = t
    /\ LET r == CopyOut(Hello, FreshMemory, 3)
       IN  r.ret = 2 /\ r.mem[0] = 104 /\ r.mem[1] = 101 /\ r.mem[2] = NUL

(* A getText call that truncated the content. *)
C2_Witness ==
    /\ call.op = "getText" /\ call.present /\ call.capacity > 0 /\ HasBuffer(call.h)
    /\ ret < Len(Content(call.h))
    /\ outBuffer[ret] = NUL

(* C3: getTextLength right after initWithText(h, n, t) on a valid handle   *)
(* is the byte length of t, whatever went before; getTextLength is 0 when  *)
(* the handle or the current Buffer is absent.                             *)
C3_LengthAfterInit ==
    /\ (call.op = "initWithText" /\ ~InitRejected(call.h, call.namePresent, call.textPresent)) =>
           GetTextLengthResult(call.h, 0) = Len(call.text)
    /\ (call.op = "getTextLength" /\ ~HasBuffer(call.h)) => ret = 0

(* An initWithText that replaced a Buffer of another length with a text    *)
(* that is not empty.                                                      *)
C3_Witness ==
    /\ call.op = "initWithText" /\ ~InitRejected(call.h, call.namePresent, call.textPresent)
    /\ Len(buffers[call.h]) = 2
    /\ Len(call.text) > 0
    /\ Len(buffers[call.h][1]) # Len(call.text)

(* C4: isVimMode is true right after a successful create and right after   *)
(* any setVimMode on a valid handle.                                       *)
C4_VimAfterCreateAndSet ==
    /\ (call.op = "create" /\ ret # NULL) => IsVimModeResult(ret, 0)
    /\ (call.op = "setVimMode" /\ call.h # NULL) => IsVimModeResult(call.h, 0)

(* A setVimMode on a handle that has a Buffer and got keys before. *)
C4_Witness ==
    /\ call.op = "setVimMode" /\ HasBuffer(call.h)
    /\ modeState[call.h] = "Insert"
    /\ IsVimModeResult(call.h, 0)

(* A handleKey call on a handle whose Editor has no active Window. *)
KeyWithoutWindow ==
    /\ call'.op = "handleKey"
    /\ call'.h # NULL
    /\ activeWindow[call'.h] = NoWindow

(* C5 as stated: every handleKey call delivered while no Window is active  *)
(* returns false and leaves the Buffer content unchanged.                  *)
C5_NoWindowReturnsFalse ==
    [][KeyWithoutWindow => (ret' = FALSE /\ buffers' = buffers)]_vars

(* C5 as amended: every handleKey call made while no Window is active      *)
(* leaves the Buffer content and the Window unchanged; it returns false     *)
(* when the handle has no current Buffer and true when it has one.          *)
C5_NoWindowKeepsContent ==
    [][KeyWithoutWindow =>
          /\ buffers' = buffers
          /\ activeWindow' = activeWindow
          /\ ret' = HasBuffer(call'.h)]_vars

(* A key delivered to the Mode of a current Buffer while no Window was     *)
(* active.                                                                 *)
C5_Witness ==
    /\ call.op = "handleKey" /\ HasBuffer(call.h)
    /\ ret = TRUE
    /\ delivered.buffer = current_buffer[call.h]
    /\ delivered.target = 0
    /\ Len(Content(call.h)) > 0

(* C6: handleKey returns false and delivers nothing when the handle is      *)
(* absent, no current Buffer is set or no Mode is resolvable; otherwise it  *)
(* delivers one key event to the Mode of the current Buffer and returns     *)
(* true, also when the Mode ignores the key.                                *)
C6_HandleKeyDelivery ==
    [][call'.op = "handleKey" =>
          LET h == call'.h
          IN  IF ~HasBuffer(h) \/ globalMode[h] = NoMode
              THEN /\ ret' = FALSE
                   /\ delivered' = NoKey
                   /\ UNCHANGED editorVars
              ELSE /\ ret' = TRUE
                   /\ delivered' # NoKey
                   /\ delivered'.buffer = current_buffer[h]
                   /\ UNCHANGED <<alive, current_buffer, globalMode>>]_vars

(* An Up key delivered to a one-line Buffer shown by the active Window:    *)
(* the Mode has no line to move to, and handleKey returned true.           *)
C6_Witness ==
    /\ call.op = "handleKey" /\ HasBuffer(call.h)
    /\ ret = TRUE
    /\ delivered.key = ExtKey("UP")
    /\ delivered.target = current_buffer[call.h]
    /\ activeWindow[call.h].buffer = current_buffer[call.h]
    /\ \A i \in 1..Len(Content(call.h)) : Content(call.h)[i] # NL

(* The translation tables of spec.md 4.1. *)
KeyTable(key) ==
    CASE key = 1000 -> ExtKey("UP")
      [] key = 1001 -> ExtKey("DOWN")
      [] key = 1002 -> ExtKey("LEFT")
      [] key = 1003 -> ExtKey("RIGHT")
      [] OTHER -> Literal(key)

ModifierTable(modifiers, set) ==
    /\ set \subseteq {"Ctrl", "Alt", "Shift"}
    /\ "Ctrl" \in set <=> modifiers % 2 = 1
    /\ "Alt" \in set <=> (modifiers \div 2) % 2 = 1
    /\ "Shift" \in set <=> (modifiers \div 4) % 2 = 1

AllKeys == (0..127) \cup (996..1007)
AllModifiers == 0..63

(* C7: what handleKey delivers is a function of (key, modifiers) alone:    *)
(* 1000..1003 become Up/Down/Left/Right for every modifiers value, every   *)
(* other key passes unchanged as a literal code, and the modifier set has  *)
(* Ctrl iff bit 0, Alt iff bit 1, Shift iff bit 2, higher bits ignored;    *)
(* key 5 with modifiers 5 is literal 5 with Ctrl and Shift, Alt clear.     *)
C7_KeyTranslation ==
    /\ (call.op = "handleKey" /\ ret = TRUE) =>
           /\ delivered.key = KeyTable(call.key)
           /\ ModifierTable(call.modifiers, delivered.modifiers)
    /\ \A key \in AllKeys : TranslateKey(key) = KeyTable(key)
    /\ \A modifiers \in AllModifiers :
           /\ ModifierTable(modifiers, TranslateModifiers(modifiers))
           /\ TranslateModifiers(modifiers) = TranslateModifiers(modifiers % 8)
    /\ TranslateKey(5) = Literal(5)
    /\ TranslateModifiers(5) = {"Ctrl", "Shift"}

(* Key 5 with modifiers 5 delivered to a Mode. *)
C7_Witness ==
    /\ call.op = "handleKey" /\ ret = TRUE
    /\ call.key = 5 /\ call.modifiers = 5
    /\ delivered.key = Literal(5)
    /\ delivered.modifiers = {"Ctrl", "Shift"}

(* Line and column of an offset, counted on the content itself. *)
NewlinesBefore(text, o) == {i \in 1..Len(text) : i <= o /\ text[i] = NL}
LineOf(text, o) == Cardinality(NewlinesBefore(text, o))
ColumnOf(text, o) ==
    IF NewlinesBefore(text, o) = {} THEN o
    ELSE o - (CHOOSE i \in NewlinesBefore(text, o) :
                  \A j \in NewlinesBefore(text, o) : j <= i)

(* C8: on a valid handle getCursorPosition writes (0,0) when there is no   *)
(* current Buffer, no active Window, or the active Window shows another    *)
(* Buffer; only when the active Window shows the current Buffer does it    *)
(* report the line and column of that Window's cursor offset.              *)
C8_CursorPositionCases ==
    (call.op = "getCursorPosition" /\ call.h # NULL /\ call.present) =>
        LET h == call.h
            w == activeWindow[h]
        IN  IF ~HasBuffer(h) \/ w = NoWindow \/ w.buffer # current_buffer[h]
            THEN outPos = Zero
            ELSE outPos = [line |-> LineOf(Content(h), w.cursor),
                           column |-> ColumnOf(Content(h), w.cursor)]

(* getCursorPosition wrote (0,0) while the active Window showed another    *)
(* Buffer with the cursor moved off offset 0.                              *)
C8_Witness ==
    /\ call.op = "getCursorPosition" /\ call.present /\ HasBuffer(call.h)
    /\ activeWindow[call.h] # NoWindow
    /\ activeWindow[call.h].buffer # current_buffer[call.h]
    /\ activeWindow[call.h].cursor > 0
    /\ outPos = Zero

(* A call, other than create and destroy, with an absent handle, an absent *)
(* required pointer or zero capacity.                                      *)
InvalidCall(c) ==
    /\ c.op \in {"initWithText", "getText", "getTextLength", "setVimMode",
                 "isVimMode", "handleKey", "display", "getCursorPosition"}
    /\ \/ c.h = NULL
       \/ c.op = "initWithText" /\ (~c.namePresent \/ ~c.textPresent)
       \/ c.op = "getText" /\ (~c.present \/ c.capacity = 0)

(* C9: such a call is a silent no-op: getText and getTextLength return 0,  *)
(* handleKey and isVimMode return false, and the current Buffer, its       *)
(* content, the cursor and the global mode of every handle are unchanged.  *)
C9_InvalidCallIsNoOp ==
    [][InvalidCall(call') =>
          /\ UNCHANGED editorVars
          /\ call'.op \in {"getText", "getTextLength"} => ret' = 0
          /\ call'.op \in {"handleKey", "isVimMode"} => ret' = FALSE]_vars

(* initWithText without a name on a live handle that has a Buffer. *)
C9_Witness ==
    /\ call.op = "initWithText" /\ HasBuffer(call.h)
    /\ ~call.namePresent /\ call.textPresent
    /\ Len(buffers[call.h]) = 1

(* C10: getCursorPosition with an absent handle and both out-parameters    *)
(* present leaves line = 0 and column = 0, whatever they held before.      *)
C10_AbsentHandleZeroesPosition ==
    (call.op = "getCursorPosition" /\ call.h = NULL /\ call.present) =>
        outPos = Zero

(* The argument values the region computation is checked over. *)
DisplayOrigins == -2..2
DisplayExtents == 0..3

(* C11: every display call on a valid handle sets the display region to    *)
(* the rectangle [x, y] - [x + width, y + height] and leaves the current   *)
(* Buffer, the content of every Buffer, the cursor, the global mode and    *)
(* the Mode's sub-state as they were, in every state and for every         *)
(* argument.                                                               *)
C11_DisplayIsPresentationOnly ==
    [][(call'.op = "display" /\ call'.h # NULL) =>
          /\ displayRegion'[call'.h] =
                 <<call'.x, call'.y, call'.x + call'.width, call'.y + call'.height>>
          /\ \A x \in DisplayOrigins, y \in DisplayOrigins,
                width \in DisplayExtents, height \in DisplayExtents :
                 DisplayRegion(x, y, width, height) = <<x, y, x + width, y + height>>
          /\ UNCHANGED <<alive, current_buffer, buffers, activeWindow,
                         globalMode, registeredModes, modeState>>]_vars

(* A display call on a handle whose Mode is inserting at a cursor moved    *)
(* off offset 0.                                                           *)
C11_Witness ==
    /\ call.op = "display" /\ HasBuffer(call.h)
    /\ displayRegion[call.h] = <<call.x, call.y, call.x + call.width, call.y + call.height>>
    /\ modeState[call.h] = "Insert"
    /\ activeWindow[call.h] # NoWindow
    /\ activeWindow[call.h].cursor > 0

(* C12: setVimMode with an absent handle, or on a handle whose global mode *)
(* is Vim already, is a no-op, once or repeatedly: the global mode, the    *)
(* Vim Mode's sub-state, the Buffer content and the cursor are as before.  *)
C12_SetVimModeIdempotent ==
    [][(call'.op = "setVimMode"
        /\ (IF call'.h = NULL THEN TRUE ELSE globalMode[call'.h] = "Vim")) =>
          UNCHANGED editorVars]_vars

(* setVimMode called while the Vim Mode was inserting at a cursor moved    *)
(* off offset 0.                                                           *)
C12_Witness ==
    /\ call.op = "setVimMode" /\ HasBuffer(call.h)
    /\ globalMode[call.h] = "Vim"
    /\ modeState[call.h] = "Insert"
    /\ activeWindow[call.h] # NoWindow
    /\ activeWindow[call.h].buffer = current_buffer[call.h]
    /\ activeWindow[call.h].cursor > 0

(* The boundary operations that change an Editor. *)
EditorOpNames ==
    {"create", "destroy", "initWithText", "setVimMode", "handleKey", "display"}

(* C13: handles are isolated: whatever operation is applied to one handle, *)
(* the current Buffer, the Buffer contents, the Window and its cursor, the *)
(* global mode, the Mode's sub-state and the display region of every other *)
(* handle are unchanged.                                                   *)
C13_HandlesIsolated ==
    [][\A a \in Handles, b \in Handles :
          (a # b /\ call'.op \in EditorOpNames /\ call'.h = a) =>
              /\ alive'[b] = alive[b]
              /\ current_buffer'[b] = current_buffer[b]
              /\ buffers'[b] = buffers[b]
              /\ activeWindow'[b] = activeWindow[b]
              /\ globalMode'[b] = globalMode[b]
              /\ registeredModes'[b] = registeredModes[b]
              /\ modeState'[b] = modeState[b]
              /\ displayRegion'[b] = displayRegion[b]]_vars

(* One handle got a Buffer replaced while the other one had a Buffer with  *)
(* the cursor moved off offset 0.                                          *)
C13_Witness ==
    /\ call.op = "initWithText" /\ call.h = 1
    /\ Len(buffers[1]) = 2
    /\ current_buffer[2] = 1
    /\ activeWindow[2] = [buffer |-> 1, cursor |-> 1]
    /\ globalMode[2] = "Vim"

(* The Buffer made by the most recent successful initWithText on a handle: *)
(* the Editor keeps its Buffers in the order they were made.               *)
NewestBuffer(h) == Len(buffers[h])
NewestContent(h) == buffers[h][NewestBuffer(h)]

(* C14: right after every successful initWithText, a replacing one         *)
(* included, the cached current Buffer is the new Buffer, holding the text *)
(* given, and the active Window shows it; and in every state with a        *)
(* current Buffer that Buffer is the one of the most recent successful     *)
(* initWithText, which is the one getText copies from, getTextLength       *)
(* measures, getCursorPosition resolves the cursor against and whose Mode  *)
(* handleKey delivers to.                                                  *)
C14_CurrentBufferIsNewest ==
    /\ (call.op = "initWithText" /\ ~InitRejected(call.h, call.namePresent, call.textPresent)) =>
           /\ current_buffer[call.h] = NewestBuffer(call.h)
           /\ NewestContent(call.h) = call.text
           /\ GetActiveWindow(call.h) # NoWindow
           /\ GetBuffer(GetActiveWindow(call.h)) = current_buffer[call.h]
    /\ \A h \in Handles : HasBuffer(h) => current_buffer[h] = NewestBuffer(h)
    /\ (call.op = "getText" /\ call.present /\ call.capacity > 0 /\ HasBuffer(call.h)) =>
           [ret |-> ret, mem |-> outBuffer] =
               CopyOut(NewestContent(call.h), FreshMemory, call.capacity)
    /\ (call.op = "getTextLength" /\ HasBuffer(call.h)) =>
           ret = Len(NewestContent(call.h))
    /\ (call.op = "handleKey" /\ HasBuffer(call.h)) =>
           delivered.buffer = NewestBuffer(call.h)
    /\ (call.op = "getCursorPosition" /\ call.present /\ HasBuffer(call.h)) =>
           LET w == activeWindow[call.h]
           IN  \/ outPos = Zero
               \/ /\ w # NoWindow
                  /\ w.buffer = NewestBuffer(call.h)
                  /\ outPos = [line |-> LineOf(NewestContent(call.h), w.cursor),
                               column |-> ColumnOf(NewestContent(call.h), w.cursor)]

(* getTextLength measured the second Buffer of a handle whose first Buffer *)
(* had another length.                                                     *)
C14_Witness ==
    /\ call.op = "getTextLength" /\ HasBuffer(call.h)
    /\ NewestBuffer(call.h) = 2
    /\ ret = Len(buffers[call.h][2])
    /\ ret # Len(buffers[call.h][1])

(* The handle of the scenario holds "hello\nworld" with the cursor at      *)
(* offset 0 and the Vim Mode in its Normal state.                          *)
ScenarioStart ==
    /\ HasBuffer(1)
    /\ Content(1) = ScenarioText
    /\ activeWindow[1] = [buffer |-> current_buffer[1], cursor |-> 0]
    /\ modeState[1] = "Normal"

(* C15: after create and initWithText(h, "a", "hello\nworld") the text     *)
(* length is 11 and the cursor position (0,0); a Down key (1001) handed in *)
(* then, the Vim Mode being in its Normal state, returns true, the cursor  *)
(* position is (1,0) afterwards and the Buffer content is unchanged.       *)
C15_Scenario ==
    [][/\ (call'.op = "initWithText" /\ call'.text = ScenarioText) =>
              /\ ScenarioStart'
              /\ GetTextLengthResult(1, 0)' = 11
              /\ GetCursorPositionResult(1, TRUE, NoPos, 0)' = Zero
       /\ (ScenarioStart /\ call'.op = "getTextLength") => ret' = 11
       /\ (ScenarioStart /\ call'.op = "getCursorPosition") => outPos' = Zero
       /\ (ScenarioStart /\ call'.op = "handleKey" /\ call'.key = 1001) =>
              /\ ret' = TRUE
              /\ GetCursorPositionResult(1, TRUE, NoPos, 0)' = [line |-> 1, column |-> 0]
              /\ buffers' = buffers
       /\ (call'.op = "getCursorPosition" /\ call.op = "handleKey" /\ call.key = 1001
           /\ HasBuffer(1) /\ activeWindow[1].cursor = 6) =>
              outPos' = [line |-> 1, column |-> 0]]_vars

(* getCursorPosition asked right after a Down key that took the cursor of  *)
(* the first Buffer to the start of "world".                               *)
C15_Witness ==
    /\ call.op = "getCursorPosition"
    /\ outPos = [line |-> 1, column |-> 0]
    /\ NewestBuffer(1) = 1
    /\ Content(1) = ScenarioText
    /\ activeWindow[1].cursor = 6
    /\ modeState[1] = "Normal"

(* What getCursorPosition would report for a handle now. *)
PositionOf(h) == GetCursorPositionResult(h, TRUE, NoPos, 0)

(* C16: after every successful initWithText, whatever the text (the empty  *)
(* text included) and whatever Buffer and cursor the handle had before,    *)
(* the position reported is (0,0), and it stays what it is under every     *)
(* operation other than a key event or another initWithText; what          *)
(* getCursorPosition writes is that position.                              *)
C16_FreshBufferAtOrigin ==
    [][\A h \in MainHandles :
          /\ (call'.op = "initWithText" /\ call'.h = h
              /\ ~InitRejected(h, call'.namePresent, call'.textPresent)) =>
                 PositionOf(h)' = Zero
          /\ call'.op \in {"getText", "getTextLength", "setVimMode", "isVimMode",
                           "display", "getCursorPosition"} =>
                 PositionOf(h)' = PositionOf(h)
          /\ (call'.op = "getCursorPosition" /\ call'.h = h /\ call'.present) =>
                 outPos' = PositionOf(h)']_vars

(* getCursorPosition wrote (0,0) for a second Buffer, not empty, that      *)
(* replaced a first one; keys had been delivered on the handle before.     *)
C16_Witness ==
    /\ call.op = "getCursorPosition" /\ call.present /\ HasBuffer(call.h)
    /\ outPos = Zero
    /\ NewestBuffer(call.h) = 2
    /\ Len(NewestContent(call.h)) > 0
    /\ activeWindow[call.h] = [buffer |-> 2, cursor |-> 0]
    /\ modeState[call.h] = "Insert"

(* The line-start table of spec.md 4.3: lineStart[0] = 0 and one entry     *)
(* for the offset after every newline, in increasing order.                *)
LineStartTable(text) == {0} \cup {o \in 1..Len(text) : text[o] = NL}
LineCount(text) == Cardinality(LineStartTable(text))
lineStart(text, i) ==
    CHOOSE s \in LineStartTable(text) :
        Cardinality({t \in LineStartTable(text) : t < s}) = i

(* (line, column) is the resolution of offset o in text as C17 states it. *)
Resolves(text, o, line, column) ==
    LET n == LineCount(text)
    IN  /\ line \in 0..(n - 1)
        /\ \A i \in 0..(n - 1) :
               (/\ lineStart(text, i) <= o
                /\ (i = n - 1 \/ o < lineStart(text, i + 1))) <=> i = line
        /\ column = o - lineStart(text, line)
        /\ column >= 0
        /\ lineStart(text, line) + column = o
        /\ o = Len(text) => line = n - 1
        /\ Len(text) = 0 => (line = 0 /\ column = 0)

(* C17: for content of length L and every cursor offset o in 0..L, the     *)
(* line getCursorPosition reports is the one index i with lineStart[i] <=  *)
(* o < lineStart[i+1] (the last line reaching to L inclusive) and the      *)
(* column is o - lineStart[i], never negative; o = L resolves to the last  *)
(* line and the empty content to (0,0).                                    *)
C17_OffsetResolution ==
    /\ (call.op = "getCursorPosition" /\ call.present /\ HasBuffer(call.h)
        /\ activeWindow[call.h] # NoWindow
        /\ activeWindow[call.h].buffer = current_buffer[call.h]) =>
           /\ activeWindow[call.h].cursor \in 0..Len(Content(call.h))
           /\ Resolves(Content(call.h), activeWindow[call.h].cursor,
                       outPos.line, outPos.column)
    /\ \A text \in ResolveTexts : \A o \in 0..Len(text) :
           Resolves(text, o, GetLineFromOffset(text, o), o - GetLinePos(text, o))

(* The cursor at the end of a content whose last line is not the first and *)
(* not empty: o = L, with a column that differs from the offset.           *)
C17_Witness ==
    /\ call.op = "getCursorPosition" /\ call.present /\ HasBuffer(call.h)
    /\ activeWindow[call.h].buffer = current_buffer[call.h]
    /\ Content(call.h) = <<97, NL, 97>>
    /\ activeWindow[call.h].cursor = 3
    /\ outPos = [line |-> 1, column |-> 1]

(* C18: in every state reached by initWithText and handleKey calls the     *)
(* cursor offset of an active Window lies in 0..length of the content of   *)
(* the Buffer the Window shows, and what getCursorPosition reports on a    *)
(* handle with a current Buffer is a position of that Buffer's content:    *)
(* a line that exists, a column that is not negative, an offset within     *)
(* the content.                                                            *)
C18_CursorWithinContent ==
    /\ \A h \in Handles :
           GetActiveWindow(h) # NoWindow =>
               GetBufferCursor(GetActiveWindow(h)) \in
                   0..Len(GetText(h, GetBuffer(GetActiveWindow(h))))
    /\ (call.op = "getCursorPosition" /\ call.present /\ HasBuffer(call.h)) =>
           /\ outPos.line \in 0..(LineCount(Content(call.h)) - 1)
           /\ outPos.column >= 0
           /\ lineStart(Content(call.h), outPos.line) + outPos.column
                  <= Len(Content(call.h))

(* getCursorPosition reported the last line of a content that ends in a    *)
(* newline, the cursor standing at the very end of the content.            *)
C18_Witness ==
    /\ call.op = "getCursorPosition" /\ call.present /\ HasBuffer(call.h)
    /\ Content(call.h) = <<NL>>
    /\ activeWindow[call.h] = [buffer |-> current_buffer[call.h], cursor |-> 1]
    /\ outPos = [line |-> 1, column |-> 0]

(* A call during which the engine raised a fault. *)
Faulted(c) ==
    /\ c.op \in {"create", "initWithText", "getText", "getTextLength",
                 "setVimMode", "isVimMode", "handleKey", "display",
                 "getCursorPosition"}
    /\ c.fault # 0

(* C19: a fault of the engine during a boundary operation is turned into   *)
(* the operation's sentinel: create returns null, handleKey false, getText *)
(* and getTextLength 0, getCursorPosition leaves (0,0), initWithText,      *)
(* setVimMode and display return normally; and the handle, the current     *)
(* Buffer, the Buffer contents and the cursor are as before the call.      *)
C19_FaultGivesSentinel ==
    [][Faulted(call') =>
          /\ UNCHANGED <<alive, current_buffer, buffers, activeWindow>>
          /\ call'.op = "create" => ret' = NULL
          /\ call'.op = "handleKey" => ret' = FALSE
          /\ call'.op \in {"getText", "getTextLength"} => ret' = 0
          /\ (call'.op = "getCursorPosition" /\ call'.h # NULL /\ call'.present) =>
                 outPos' = Zero
          /\ call'.op \in {"initWithText", "setVimMode", "display"} =>
                 ret' = NoRet]_vars

(* C20: both Modes are registered on every live handle, and in every state *)
(* the boundary operations reach the global mode of a live handle is set   *)
(* and is Vim: isVimMode on a valid handle returns true.                   *)
C20_GlobalModeAlwaysVim ==
    /\ \A h \in Handles :
           alive[h] = "live" =>
               /\ registeredModes[h] = {"Vim", "Standard"}
               /\ GetGlobalMode(h) # NoMode
               /\ GetGlobalMode(h) = "Vim"
               /\ IsVimModeResult(h, 0)
    /\ (call.op = "isVimMode" /\ call.h # NULL) => ret = TRUE

(* isVimMode asked on a handle that has a second Buffer, a display region  *)
(* and a Mode that is inserting, the Window lost.                          *)
C20_Witness ==
    /\ call.op = "isVimMode" /\ HasBuffer(call.h)
    /\ ret = TRUE
    /\ NewestBuffer(call.h) = 2
    /\ displayRegion[call.h] # NoRegion
    /\ modeState[call.h] = "Insert"
    /\ activeWindow[call.h] = NoWindow

====
